---- MODULE Spec2Model ----
(***************************************************************************)
(* Model of NewsNexusUrlScraper01: the selection filter, the two-strategy  *)
(* cascade (Cheerio, then Puppeteer) of main(), and the status protocol it *)
(* persists in the ArticleContents table.                                  *)
(*                                                                         *)
(* One process run is one pass.  A run is cut into steps at its awaits: a  *)
(* step runs from the resumption after one await to the completion of the  *)
(* next database operation or to the start of the next strategy call.      *)
(* A new run may start whenever the one before has ended, in whatever way  *)
(* it ended; the number of runs is not bounded.                            *)
(***************************************************************************)
EXTENDS Integers, Sequences, FiniteSets, TLC

\* ------------------------------------------------------------------ bounds
NumArticles == 2
\* Direct calls of the strategies try every length this close to the threshold
ProbeSpan == 3
\* The end of a pass is tried for every count of selected articles up to this
MaxTotal == 16

\* ------------------------------------------------------- program constants
MinContentLength == 200

Articles == 1..NumArticles
Runs == {"A", "B"}
SeqRuns == {"A"}

\* scrapeStatusCheerio / scrapeStatusPuppeteer: nullable booleans
NotAttempted == "null"
Succeeded == "true"
Failed == "false"
Status == {NotAttempted, Succeeded, Failed}

\* A text is known by who produced it and by its length.
EmptyContent == [by |-> "none", len |-> 0]
UpstreamContent == [by |-> "upstream", len |-> MinContentLength]
Text(by, n) == [by |-> by, len |-> n]

\* JavaScript truthiness of a string
Truthy(c) == c.len > 0

ContentRow(c, sc, sp) ==
    [content |-> c, scrapeStatusCheerio |-> sc, scrapeStatusPuppeteer |-> sp]

HasRow(rows) == Len(rows) > 0

\* The rows an article can have before the first run: none, or one row.  A
\* row nothing was tried for holds no text or a text from upstream; a row
\* with a status holds a text exactly when one of its statuses is Succeeded.
\* The other rows with a decided Cheerio status (Succeeded / NotAttempted,
\* Failed / Succeeded, Failed / Failed) are what the runs write themselves,
\* and the runs follow one another without bound.
InitialRows ==
    {<<>>,
     <<ContentRow(EmptyContent, NotAttempted, NotAttempted)>>,
     <<ContentRow(UpstreamContent, NotAttempted, NotAttempted)>>,
     <<ContentRow(UpstreamContent, NotAttempted, Succeeded)>>,
     <<ContentRow(EmptyContent, NotAttempted, Failed)>>,
     <<ContentRow(EmptyContent, Failed, NotAttempted)>>,
     <<ContentRow(UpstreamContent, Succeeded, Succeeded)>>,
     <<ContentRow(UpstreamContent, Succeeded, Failed)>>}

\* ------------------------------------------------------------- strategies
\* What a call meets: an extracted text of some length, or a fault at one
\* stage of the try block.  Cheerio: the fetch (network error, timeout) or
\* the parse.  Puppeteer: the launch, the page (newPage, goto with its
\* timeout, evaluate) or the close; cleanupFails says whether the close in
\* the catch block rejects as well.
ExtractLens == {0, MinContentLength - 1, MinContentLength}
CheerioFaults == {"fetch", "parse"}
PuppeteerFaults == {"launch", "page", "close"}
CheerioEnvs ==
    [fault : CheerioFaults, len : {0}] \cup [fault : {"none"}, len : ExtractLens]
PuppeteerEnvs ==
    [fault : PuppeteerFaults, len : {0}, cleanupFails : BOOLEAN]
    \cup [fault : {"none"}, len : ExtractLens, cleanupFails : {FALSE}]

\* A ScrapeResult; thrown says the call rejected instead of returning it
Returned(ok, c, e) == [success |-> ok, content |-> c, error |-> e, thrown |-> FALSE]
Thrown(e) == [success |-> FALSE, content |-> EmptyContent, error |-> e, thrown |-> TRUE]

\* The try block up to the extracted text: it raises at the fault, if any
CheerioTry(env) ==
    IF env.fault # "none"
    THEN [raised |-> TRUE, error |-> env.fault, len |-> 0]
    ELSE [raised |-> FALSE, error |-> "none", len |-> env.len]

\* Variant: the length test of Cheerio with the boundary one higher
CheerioClassify_Inclusive(len) ==
    IF len = 0 \/ len <= MinContentLength
    THEN Returned(FALSE, EmptyContent, "Content too short")
    ELSE Returned(TRUE, Text("cheerio", len), "none")

CheerioClassify(len) ==
    IF len = 0 \/ len < MinContentLength
    THEN Returned(FALSE, EmptyContent, "Content too short")
    ELSE Returned(TRUE, Text("cheerio", len), "none")

scrapeArticleContentWithCheerio(env) ==
    LET t == CheerioTry(env) IN
    IF t.raised THEN Returned(FALSE, EmptyContent, t.error)
    ELSE CheerioClassify(t.len)

\* The try block up to the extracted text, browser.close() included:
\* browser says whether launch had answered, closed whether close() did,
\* closeCalls how often close() was called.
PuppeteerTry(env) ==
    CASE env.fault = "launch" ->
            [raised |-> TRUE, error |-> "launch", browser |-> FALSE, closed |-> FALSE,
             closeCalls |-> 0, len |-> 0]
      [] env.fault = "page" ->
            [raised |-> TRUE, error |-> "page", browser |-> TRUE, closed |-> FALSE,
             closeCalls |-> 0, len |-> 0]
      [] env.fault = "close" ->
            [raised |-> TRUE, error |-> "close", browser |-> TRUE, closed |-> FALSE,
             closeCalls |-> 1, len |-> 0]
      [] OTHER ->
            [raised |-> FALSE, error |-> "none", browser |-> TRUE, closed |-> TRUE,
             closeCalls |-> 1, len |-> env.len]

\* Variant: the close in the catch block without its own catch
PuppeteerCatch_CloseUnguarded(env, t) ==
    IF t.browser /\ env.cleanupFails THEN Thrown("close")
    ELSE Returned(FALSE, EmptyContent, t.error)

\* The catch block: if (browser) await browser.close().catch(() => {}),
\* then the failure result with the message of the error caught
PuppeteerCatch(env, t) == Returned(FALSE, EmptyContent, t.error)

PuppeteerClassify(len) ==
    IF len = 0 \/ len < MinContentLength
    THEN Returned(FALSE, EmptyContent, "Content too short")
    ELSE Returned(TRUE, Text("puppeteer", len), "none")

scrapeArticleContentWithPuppeteer(env) ==
    LET t == PuppeteerTry(env) IN
    IF t.raised THEN PuppeteerCatch(env, t)
    ELSE PuppeteerClassify(t.len)

\* Variant: the catch block returns the failure without cleaning up
CatchCloseCalls_NoCleanup(t) == 0

\* if (browser) await browser.close(): the close() calls of the catch block
CatchCloseCalls(t) == IF t.browser THEN 1 ELSE 0

\* The close() calls one call of scrapeArticleContentWithPuppeteer makes
BrowserCloseCalls(env) ==
    LET t == PuppeteerTry(env) IN
    t.closeCalls + (IF t.raised THEN CatchCloseCalls(t) ELSE 0)

\* ------------------------------------------------------------------ state
VARIABLES
    store,              \* ArticleContents rows of every article, in id order
    hasUrl,             \* whether Article.url is set
    pc,                 \* position of each run
    conn,               \* sequelize connection of each run
    exitCode,           \* how each process ended: "0", "1", "killed", or "none" yet
    articlesToScrape,   \* rows loaded by Article.findAll (instances in memory)
    queried,            \* history: whether findAll has answered, and the rows it saw
    filteredArticles,   \* the selected articles, in order
    i,                  \* loop index into filteredArticles (1-based)
    stats,              \* ScrapingStats
    log,                \* history: what the run did, in order
    completed,          \* history: the loop of this run ran to its end
    prevCompleted,      \* history: the loop of the run before this one ran to its end
    probe,              \* a direct call of each strategy: its input and its result
    report              \* the end of a pass taken alone: its statistics and the rate printed

runVars == <<store, hasUrl, pc, conn, exitCode, articlesToScrape, queried,
             filteredArticles, i, stats, log, completed, prevCompleted>>
vars == <<runVars, probe, report>>

ZeroStats == [total |-> 0, cheerioSuccess |-> 0, cheerioFailed |-> 0,
              puppeteerSuccess |-> 0, puppeteerFailed |-> 0, skipped |-> 0]

NoRows == [a \in Articles |-> <<>>]
NoExit == "none"
NotQueried == [done |-> FALSE, rows |-> NoRows]

\* No strategy is called outside a run
NoProbe == [cheerioEnv |-> [fault |-> "none", len |-> 0],
            puppeteerEnv |-> [fault |-> "none", len |-> 0, cleanupFails |-> FALSE],
            called |-> {},
            closeCalls |-> 0,
            cheerio |-> Returned(FALSE, EmptyContent, "none"),
            puppeteer |-> Returned(FALSE, EmptyContent, "none")]

\* No pass has ended
NoReport == [stats |-> ZeroStats, ended |-> FALSE, rate |-> {}]

Init ==
    /\ store \in [Articles -> InitialRows]
    /\ hasUrl \in [Articles -> BOOLEAN]
    /\ probe = NoProbe
    /\ report = NoReport
    /\ pc = [r \in Runs |-> "idle"]
    /\ conn = [r \in Runs |-> "none"]
    /\ exitCode = [r \in Runs |-> NoExit]
    /\ articlesToScrape = [r \in Runs |-> NoRows]
    /\ queried = [r \in Runs |-> NotQueried]
    /\ filteredArticles = [r \in Runs |-> <<>>]
    /\ i = [r \in Runs |-> 0]
    /\ stats = [r \in Runs |-> ZeroStats]
    /\ log = [r \in Runs |-> <<>>]
    /\ completed = [r \in Runs |-> FALSE]
    /\ prevCompleted = [r \in Runs |-> FALSE]

\* ------------------------------------------------------------ the selector
\* Variant: the Cheerio status read as a plain boolean (null taken as false)
ShouldScrape_BooleanStatus(contents) ==
    IF Len(contents) = 0 THEN TRUE
    ELSE contents[1].scrapeStatusCheerio # Succeeded

\* Variant: selection by the Puppeteer status alone
ShouldScrape_PuppeteerPending(contents) ==
    IF Len(contents) = 0 THEN TRUE
    ELSE contents[1].scrapeStatusPuppeteer = NotAttempted

\* Variant: every record with a failed Cheerio status is selected
ShouldScrape_NullFirst(contents) ==
    IF Len(contents) = 0 THEN TRUE
    ELSE LET content == contents[1] IN
         IF content.scrapeStatusCheerio = NotAttempted THEN TRUE
         ELSE IF content.scrapeStatusCheerio = Failed THEN TRUE
         ELSE FALSE

\* The callback of articlesToScrape.filter, applied to article.ArticleContents
ShouldScrape(contents) ==
    IF Len(contents) = 0 THEN TRUE
    ELSE LET content == contents[1] IN
         IF content.scrapeStatusCheerio = Failed /\ content.scrapeStatusPuppeteer = Failed
         THEN FALSE
         ELSE IF content.scrapeStatusCheerio = NotAttempted THEN TRUE
         ELSE IF content.scrapeStatusCheerio = Failed
                 /\ content.scrapeStatusPuppeteer = NotAttempted THEN TRUE
         ELSE FALSE

RECURSIVE FilterFrom(_, _)
RECURSIVE FilterFrom_WithUrl(_, _)
RECURSIVE FilterFrom_Reversed(_, _)
\* Variant: the selected articles in the reverse of the enumeration order
FilterFrom_Reversed(rows, a) ==
    IF a > NumArticles THEN <<>>
    ELSE IF ShouldScrape(rows[a]) THEN FilterFrom_Reversed(rows, a + 1) \o <<a>>
    ELSE FilterFrom_Reversed(rows, a + 1)

\* Variant: the filter drops the articles that have no URL
FilterFrom_WithUrl(rows, a) ==
    IF a > NumArticles THEN <<>>
    ELSE IF ShouldScrape(rows[a]) /\ hasUrl[a] THEN <<a>> \o FilterFrom_WithUrl(rows, a + 1)
    ELSE FilterFrom_WithUrl(rows, a + 1)

\* Array.prototype.filter over the articles in enumeration order, from a on
FilterFrom(rows, a) ==
    IF a > NumArticles THEN <<>>
    ELSE IF ShouldScrape(rows[a]) THEN <<a>> \o FilterFrom(rows, a + 1)
    ELSE FilterFrom(rows, a + 1)

\* ------------------------------------------------- per-article decisions
HasExisting(r, a) == Len(articlesToScrape[r][a]) > 0
ExistingContent(r, a) == articlesToScrape[r][a][1]

\* Variant: Cheerio for every record it has not resolved
NeedsCheerio_NotTrue(r, a) ==
    ~HasExisting(r, a) \/ ExistingContent(r, a).scrapeStatusCheerio # Succeeded

\* Variant: Cheerio only for articles that already have a record
NeedsCheerio_ExistingOnly(r, a) ==
    HasExisting(r, a) /\ ExistingContent(r, a).scrapeStatusCheerio = NotAttempted

\* Variant: the decision re-reads the record from the store
NeedsCheerio_FreshRead(r, a) ==
    ~HasRow(store[a]) \/ store[a][1].scrapeStatusCheerio = NotAttempted

NeedsCheerio(r, a) ==
    ~HasExisting(r, a) \/ ExistingContent(r, a).scrapeStatusCheerio = NotAttempted

NeedsPuppeteer(r, a) ==
    /\ HasExisting(r, a)
    /\ ExistingContent(r, a).scrapeStatusCheerio = Failed
    /\ ExistingContent(r, a).scrapeStatusPuppeteer = NotAttempted

Article(r) == filteredArticles[r][i[r]]

\* ------------------------------------------------------------ persistence
\* Partial update of a row: fields is a function from field names to values
Merge(row, fields) ==
    [f \in DOMAIN row |-> IF f \in DOMAIN fields THEN fields[f] ELSE row[f]]

\* instance.update(fields) on the first loaded row of article a: the row with
\* that id is rewritten in the table, and so is the instance in memory.
\* Variant: the update is stored as one more row
UpdatedStore_Insert(a, fields) ==
    [store EXCEPT ![a] = Append(store[a], Merge(store[a][1], fields))]

UpdatedStore(a, fields) ==
    [store EXCEPT ![a][1] = Merge(store[a][1], fields)]
UpdatedInstances(r, a, fields) ==
    [articlesToScrape EXCEPT ![r][a][1] = Merge(articlesToScrape[r][a][1], fields)]

\* ArticleContent.create(row)
CreatedStore(a, row) == [store EXCEPT ![a] = Append(store[a], row)]

\* A log entry: what was done, for which article, with which text
Did(what, a) == <<what, a, EmptyContent>>
\* A log entry about the connection or the query, which is about no article
DidForNone(what) == <<what, 0, EmptyContent>>

Logged(r, entries) == [log EXCEPT ![r] = log[r] \o entries]

\* Variant: the error is logged and the run goes on to its summary
Fatal_Swallowed(r) ==
    /\ pc' = [pc EXCEPT ![r] = "summary"]
    /\ UNCHANGED <<exitCode, conn>>

\* Variant: the process ends with code 0 after a caught error
Fatal_ExitZero(r) ==
    /\ pc' = [pc EXCEPT ![r] = "exited"]
    /\ exitCode' = [exitCode EXCEPT ![r] = "0"]
    /\ UNCHANGED conn

\* catch (error) { process.exit(1) }  -- the process ends inside the catch
\* block, so the finally block does not run.
Fatal(r) ==
    /\ pc' = [pc EXCEPT ![r] = "exited"]
    /\ exitCode' = [exitCode EXCEPT ![r] = "1"]
    /\ UNCHANGED conn

\* Variant: the loop goes on to the next article without the delay
AfterArticle_NoDelay(r) ==
    /\ pc' = [pc EXCEPT ![r] =
            IF i[r] < Len(filteredArticles[r]) THEN "article" ELSE "summary"]
    /\ i' = [i EXCEPT ![r] = i[r] + 1]

\* Variant: the loop stays on the article it has just worked
AfterArticle_Again(r) ==
    /\ pc' = [pc EXCEPT ![r] = "article"]
    /\ i' = i

\* After the body of one iteration: the delay unless this was the last one.
AfterArticle(r) ==
    IF i[r] < Len(filteredArticles[r])
    THEN /\ pc' = [pc EXCEPT ![r] = "delay"]
         /\ i' = i
    ELSE /\ pc' = [pc EXCEPT ![r] = "summary"]
         /\ i' = [i EXCEPT ![r] = i[r] + 1]

\* What is written after a Cheerio outcome: the fields of update(), the row
\* of ArticleContent.create()
\* Variant: the status is recorded without the text
CheerioSuccessFields_NoContent(res) == [scrapeStatusCheerio |-> Succeeded]
CheerioSuccessFields(res) == [content |-> res.content, scrapeStatusCheerio |-> Succeeded]
\* Variant: the two status columns swapped in the created row
CheerioSuccessRow_Swapped(res) == ContentRow(res.content, NotAttempted, Succeeded)
CheerioSuccessRow(res) == ContentRow(res.content, Succeeded, NotAttempted)
\* Variant: the update after a failure writes the fields of the created row
CheerioFailureFields_AsCreated == [content |-> EmptyContent, scrapeStatusCheerio |-> Failed]
\* Variant: the failure is not recorded
CheerioFailureFields_Unset == [scrapeStatusCheerio |-> NotAttempted]
CheerioFailureFields == [scrapeStatusCheerio |-> Failed]
\* Variant: the row is created without the failure
CheerioFailureRow_NoStatus == ContentRow(EmptyContent, NotAttempted, NotAttempted)
CheerioFailureRow == ContentRow(EmptyContent, Failed, NotAttempted)

\* ---------------------------------------------------------------- actions
\* A process is started: node runs main() with fresh statistics.
StartRun(r) ==
    /\ pc[r] \in {"idle", "exited"}
    /\ prevCompleted' = [prevCompleted EXCEPT ![r] = completed[r]]
    /\ completed' = [completed EXCEPT ![r] = FALSE]
    /\ pc' = [pc EXCEPT ![r] = "connect"]
    /\ conn' = [conn EXCEPT ![r] = "none"]
    /\ exitCode' = [exitCode EXCEPT ![r] = NoExit]
    /\ articlesToScrape' = [articlesToScrape EXCEPT ![r] = NoRows]
    /\ queried' = [queried EXCEPT ![r] = NotQueried]
    /\ filteredArticles' = [filteredArticles EXCEPT ![r] = <<>>]
    /\ i' = [i EXCEPT ![r] = 0]
    /\ stats' = [stats EXCEPT ![r] = ZeroStats]
    /\ log' = [log EXCEPT ![r] = <<>>]
    /\ UNCHANGED <<store, hasUrl, probe, report>>

\* initModels(); await sequelize.authenticate()
Connect(r) ==
    /\ pc[r] = "connect"
    /\ \E ok \in BOOLEAN :
        IF ok
        THEN /\ conn' = [conn EXCEPT ![r] = "open"]
             /\ pc' = [pc EXCEPT ![r] = "query"]
             /\ UNCHANGED <<exitCode, log>>
        ELSE /\ Fatal(r)
             /\ log' = Logged(r, << DidForNone("dbfail") >>)
    /\ UNCHANGED <<store, hasUrl, probe, report, articlesToScrape, queried,
                   filteredArticles, i, stats, completed, prevCompleted>>

\* await Article.findAll(...), the filter, stats.total, the total === 0 return
\* and the entry into the loop
Query(r) ==
    /\ pc[r] = "query"
    /\ \E ok \in BOOLEAN :
        IF ok
        THEN LET filtered == FilterFrom(store, 1) IN
             /\ articlesToScrape' = [articlesToScrape EXCEPT ![r] = store]
             /\ queried' = [queried EXCEPT ![r] = [done |-> TRUE, rows |-> store]]
             /\ filteredArticles' = [filteredArticles EXCEPT ![r] = filtered]
             /\ stats' = [stats EXCEPT ![r].total = Len(filtered)]
             /\ IF Len(filtered) = 0
                THEN /\ pc' = [pc EXCEPT ![r] = "finally"]
                     /\ completed' = [completed EXCEPT ![r] = TRUE]
                     /\ i' = i
                ELSE /\ pc' = [pc EXCEPT ![r] = "article"]
                     /\ i' = [i EXCEPT ![r] = 1]
                     /\ UNCHANGED completed
             /\ UNCHANGED <<exitCode, conn, log>>
        ELSE /\ Fatal(r)
             /\ log' = Logged(r, << DidForNone("dbfail") >>)
             /\ UNCHANGED <<articlesToScrape, queried, filteredArticles, stats, i,
                            completed>>
    /\ UNCHANGED <<store, hasUrl, probe, report, prevCompleted>>

\* Top of the loop body: the no-URL skip, needsCheerio / needsPuppeteer, and
\* the call of the strategy chosen.
ProcessArticle(r) ==
    /\ pc[r] = "article"
    /\ LET article == Article(r) IN
        IF ~hasUrl[article]
        THEN /\ stats' = [stats EXCEPT ![r].skipped = @ + 1]
             /\ log' = Logged(r, << Did("skip", article) >>)
             /\ i' = [i EXCEPT ![r] = i[r] + 1]
             /\ pc' = [pc EXCEPT ![r] =
                    IF i[r] + 1 <= Len(filteredArticles[r]) THEN "article" ELSE "summary"]
        ELSE IF NeedsCheerio(r, article)
        THEN /\ log' = Logged(r, << Did("cheerio", article) >>)
             /\ pc' = [pc EXCEPT ![r] = "cheerio"]
             /\ UNCHANGED <<stats, i>>
        ELSE IF NeedsPuppeteer(r, article)
        THEN /\ log' = Logged(r, << Did("puppeteer", article) >>)
             /\ pc' = [pc EXCEPT ![r] = "puppeteer"]
             /\ UNCHANGED <<stats, i>>
        ELSE /\ AfterArticle(r)
             /\ UNCHANGED <<stats, log>>
    /\ UNCHANGED <<store, hasUrl, probe, report, conn, exitCode, articlesToScrape, queried,
                   filteredArticles, completed, prevCompleted>>

\* scrapeArticleContentWithCheerio returns; the outcome is written; after a
\* failure the Puppeteer fallback is called.
CheerioReturns(r) ==
    /\ pc[r] = "cheerio"
    /\ \E env \in CheerioEnvs, dbok \in BOOLEAN :
        LET article == Article(r)
            res == scrapeArticleContentWithCheerio(env)
            ok == res.success /\ Truthy(res.content)
            ret == <<IF ok THEN "cheerioOk" ELSE "cheerioFail", article, res.content>>
        IN
        IF res.thrown
           THEN /\ Fatal(r)
                /\ log' = Logged(r, << Did("threw", article) >>)
                /\ UNCHANGED <<store, articlesToScrape, stats, i>>
           ELSE IF ~dbok
           THEN /\ Fatal(r)
                /\ log' = Logged(r, <<ret, Did("dbfail", article) >>)
                /\ UNCHANGED <<store, articlesToScrape, stats, i>>
           ELSE IF ok
           THEN /\ IF HasExisting(r, article)
                   THEN LET fields == CheerioSuccessFields(res) IN
                        /\ store' = UpdatedStore(article, fields)
                        /\ articlesToScrape' = UpdatedInstances(r, article, fields)
                        /\ log' = Logged(r, <<ret, Did("update", article) >>)
                   ELSE /\ store' = CreatedStore(article, CheerioSuccessRow(res))
                        /\ log' = Logged(r, <<ret, Did("create", article) >>)
                        /\ UNCHANGED articlesToScrape
                /\ stats' = [stats EXCEPT ![r].cheerioSuccess = @ + 1]
                /\ AfterArticle(r)
                /\ UNCHANGED <<exitCode, conn>>
           ELSE /\ IF HasExisting(r, article)
                   THEN LET fields == CheerioFailureFields IN
                        /\ store' = UpdatedStore(article, fields)
                        /\ articlesToScrape' = UpdatedInstances(r, article, fields)
                        /\ log' = Logged(r, <<ret, Did("update", article),
                                              Did("puppeteer", article) >>)
                   ELSE /\ store' = CreatedStore(article, CheerioFailureRow)
                        /\ log' = Logged(r, <<ret, Did("create", article),
                                              Did("puppeteer", article) >>)
                        /\ UNCHANGED articlesToScrape
                /\ stats' = [stats EXCEPT ![r].cheerioFailed = @ + 1]
                /\ pc' = [pc EXCEPT ![r] = "cascade"]
                /\ UNCHANGED <<exitCode, conn, i>>
    /\ UNCHANGED <<hasUrl, probe, report, queried, filteredArticles, completed, prevCompleted>>

\* Variant: a Puppeteer failure leaves the status as it was
PuppeteerFields_FailureUnrecorded(res) ==
    IF res.success /\ Truthy(res.content)
    THEN [content |-> res.content, scrapeStatusPuppeteer |-> Succeeded]
    ELSE [scrapeStatusPuppeteer |-> NotAttempted]

\* The fields written after a Puppeteer outcome
PuppeteerFields(res) ==
    IF res.success /\ Truthy(res.content)
    THEN [content |-> res.content, scrapeStatusPuppeteer |-> Succeeded]
    ELSE [scrapeStatusPuppeteer |-> Failed]

\* The cascade call of scrapeArticleContentWithPuppeteer returns:
\* contentRecord = existingContent || findOne(articleId); update if found.
PuppeteerCascadeReturns(r) ==
    /\ pc[r] = "cascade"
    /\ \E env \in PuppeteerEnvs, dbok \in BOOLEAN :
        LET article == Article(r)
            res == scrapeArticleContentWithPuppeteer(env)
            ok == res.success /\ Truthy(res.content)
            ret == <<IF ok THEN "puppeteerOk" ELSE "puppeteerFail", article, res.content>>
            fields == PuppeteerFields(res)
        IN
        IF res.thrown
           THEN /\ Fatal(r)
                /\ log' = Logged(r, << Did("threw", article) >>)
                /\ UNCHANGED <<store, articlesToScrape, stats, i>>
           ELSE IF ~dbok
           THEN /\ Fatal(r)
                /\ log' = Logged(r, <<ret, Did("dbfail", article) >>)
                /\ UNCHANGED <<store, articlesToScrape, stats, i>>
           ELSE /\ IF HasExisting(r, article)
                   THEN /\ store' = UpdatedStore(article, fields)
                        /\ articlesToScrape' = UpdatedInstances(r, article, fields)
                        /\ log' = Logged(r, <<ret, Did("update", article) >>)
                   ELSE IF Len(store[article]) > 0
                   THEN /\ store' = UpdatedStore(article, fields)
                        /\ log' = Logged(r, <<ret, Did("findOne", article),
                                              Did("update", article) >>)
                        /\ UNCHANGED articlesToScrape
                   ELSE /\ log' = Logged(r, <<ret, Did("findOne", article) >>)
                        /\ UNCHANGED <<store, articlesToScrape>>
                /\ stats' = IF ok
                            THEN [stats EXCEPT ![r].puppeteerSuccess = @ + 1]
                            ELSE [stats EXCEPT ![r].puppeteerFailed = @ + 1]
                /\ AfterArticle(r)
                /\ UNCHANGED <<exitCode, conn>>
    /\ UNCHANGED <<hasUrl, probe, report, queried, filteredArticles, completed, prevCompleted>>

\* The Puppeteer-only call (Cheerio failed in an earlier pass) returns.
PuppeteerReturns(r) ==
    /\ pc[r] = "puppeteer"
    /\ \E env \in PuppeteerEnvs, dbok \in BOOLEAN :
        LET article == Article(r)
            res == scrapeArticleContentWithPuppeteer(env)
            ok == res.success /\ Truthy(res.content)
            ret == <<IF ok THEN "puppeteerOk" ELSE "puppeteerFail", article, res.content>>
            fields == PuppeteerFields(res)
        IN
        IF res.thrown
           THEN /\ Fatal(r)
                /\ log' = Logged(r, << Did("threw", article) >>)
                /\ UNCHANGED <<store, articlesToScrape, stats, i>>
           ELSE IF ~dbok
           THEN /\ Fatal(r)
                /\ log' = Logged(r, <<ret, Did("dbfail", article) >>)
                /\ UNCHANGED <<store, articlesToScrape, stats, i>>
           ELSE /\ store' = UpdatedStore(article, fields)
                /\ articlesToScrape' = UpdatedInstances(r, article, fields)
                /\ log' = Logged(r, <<ret, Did("update", article) >>)
                /\ stats' = IF ok
                            THEN [stats EXCEPT ![r].puppeteerSuccess = @ + 1]
                            ELSE [stats EXCEPT ![r].puppeteerFailed = @ + 1]
                /\ AfterArticle(r)
                /\ UNCHANGED <<exitCode, conn>>
    /\ UNCHANGED <<hasUrl, probe, report, queried, filteredArticles, completed, prevCompleted>>

\* await new Promise((resolve) => setTimeout(resolve, 1000)); i++
Delay(r) ==
    /\ pc[r] = "delay"
    /\ log' = Logged(r, << Did("delay", Article(r)) >>)
    /\ i' = [i EXCEPT ![r] = i[r] + 1]
    /\ pc' = [pc EXCEPT ![r] = "article"]
    /\ UNCHANGED <<store, hasUrl, probe, report, conn, exitCode, articlesToScrape, queried,
                   filteredArticles, stats, completed, prevCompleted>>

\* The final statistics are printed; control reaches the finally block.
Summary(r) ==
    /\ pc[r] = "summary"
    /\ pc' = [pc EXCEPT ![r] = "finally"]
    /\ completed' = [completed EXCEPT ![r] = TRUE]
    /\ UNCHANGED <<store, hasUrl, probe, report, conn, exitCode, articlesToScrape, queried,
                   filteredArticles, i, stats, log, prevCompleted>>

\* finally { await sequelize.close() }, then main()'s promise settles:
\* .then -> process.exit(0), .catch -> process.exit(1)
Close(r) ==
    /\ pc[r] = "finally"
    /\ \E ok \in BOOLEAN :
        IF ok
        THEN /\ conn' = [conn EXCEPT ![r] = "closed"]
             /\ exitCode' = [exitCode EXCEPT ![r] = "0"]
             /\ UNCHANGED log
        ELSE /\ exitCode' = [exitCode EXCEPT ![r] = "1"]
             /\ log' = Logged(r, << DidForNone("dbfail") >>)
             /\ UNCHANGED conn
    /\ pc' = [pc EXCEPT ![r] = "exited"]
    /\ UNCHANGED <<store, hasUrl, probe, report, articlesToScrape, queried,
                   filteredArticles, i, stats, completed, prevCompleted>>

\* The process is terminated from outside, between two steps.
Kill(r) ==
    /\ pc[r] \notin {"idle", "exited"}
    /\ pc' = [pc EXCEPT ![r] = "exited"]
    /\ exitCode' = [exitCode EXCEPT ![r] = "killed"]
    /\ UNCHANGED <<store, hasUrl, probe, report, conn, articlesToScrape, queried,
                   filteredArticles, i, stats, log, completed, prevCompleted>>

RunStep(r) ==
    \/ StartRun(r)
    \/ Connect(r)
    \/ Query(r)
    \/ ProcessArticle(r)
    \/ CheerioReturns(r)
    \/ PuppeteerCascadeReturns(r)
    \/ PuppeteerReturns(r)
    \/ Delay(r)
    \/ Summary(r)
    \/ Close(r)
    \/ Kill(r)

\* One run at a time: the workflow as it is meant to be operated.
Next == \E r \in SeqRuns : RunStep(r)

Spec == Init /\ [][Next]_vars

\* ------------------------------------------------ one process, left alone
\* One run that nobody terminates: node keeps running the process, so each
\* await of a call that answers is followed by the next step of main.
PassStep(r) ==
    \/ pc[r] = "idle" /\ StartRun(r)
    \/ Connect(r)
    \/ Query(r)
    \/ ProcessArticle(r)
    \/ CheerioReturns(r)
    \/ PuppeteerCascadeReturns(r)
    \/ PuppeteerReturns(r)
    \/ Delay(r)
    \/ Summary(r)
    \/ Close(r)

NextOnePass == \E r \in SeqRuns : PassStep(r)

SpecOnePass == Init /\ [][NextOnePass]_vars /\ WF_vars(NextOnePass)

\* ------------------------------------------------- two processes at once
\* Two runs against the same store, their steps interleaved in any order.
NextConcurrent == \E r \in Runs : PassStep(r)

\* Newly ingested articles: each has a URL and no record yet.
InitConcurrent ==
    /\ Init
    /\ \A a \in Articles : hasUrl[a] /\ store[a] = <<>>

SpecConcurrent == InitConcurrent /\ [][NextConcurrent]_vars

\* --------------------------------------- runs over newly ingested articles
\* One process at a time, run again and again and terminated at any step,
\* over articles that start without record: every record a pass loads was
\* written by an earlier pass.
SpecNewArticles == InitConcurrent /\ [][Next]_vars

\* ------------------------------------------- the strategies called directly
\* Each strategy is called once on an input of its own: a fault at any
\* stage, or a page whose extracted text has a length at most ProbeSpan away
\* from the threshold, or the empty text.
ProbeLens == {0} \cup ((MinContentLength - ProbeSpan)..(MinContentLength + ProbeSpan))
ProbeCheerioEnvs ==
    [fault : CheerioFaults, len : {0}] \cup [fault : {"none"}, len : ProbeLens]
ProbePuppeteerEnvs ==
    [fault : PuppeteerFaults, len : {0}, cleanupFails : BOOLEAN]
    \cup [fault : {"none"}, len : ProbeLens, cleanupFails : {FALSE}]

InitStrategy ==
    /\ store = NoRows
    /\ hasUrl = [a \in Articles |-> TRUE]
    /\ \E ce \in ProbeCheerioEnvs, pe \in ProbePuppeteerEnvs :
          probe = [NoProbe EXCEPT !.cheerioEnv = ce, !.puppeteerEnv = pe]
    /\ report = NoReport
    /\ pc = [r \in Runs |-> "idle"]
    /\ conn = [r \in Runs |-> "none"]
    /\ exitCode = [r \in Runs |-> NoExit]
    /\ articlesToScrape = [r \in Runs |-> NoRows]
    /\ queried = [r \in Runs |-> NotQueried]
    /\ filteredArticles = [r \in Runs |-> <<>>]
    /\ i = [r \in Runs |-> 0]
    /\ stats = [r \in Runs |-> ZeroStats]
    /\ log = [r \in Runs |-> <<>>]
    /\ completed = [r \in Runs |-> FALSE]
    /\ prevCompleted = [r \in Runs |-> FALSE]

CallCheerio ==
    /\ "cheerio" \notin probe.called
    /\ probe' = [probe EXCEPT !.called = @ \cup {"cheerio"},
                              !.cheerio = scrapeArticleContentWithCheerio(probe.cheerioEnv)]
    /\ UNCHANGED <<runVars, report>>

CallPuppeteer ==
    /\ "puppeteer" \notin probe.called
    /\ probe' = [probe EXCEPT !.called = @ \cup {"puppeteer"},
                              !.puppeteer = scrapeArticleContentWithPuppeteer(probe.puppeteerEnv),
                              !.closeCalls = BrowserCloseCalls(probe.puppeteerEnv)]
    /\ UNCHANGED <<runVars, report>>

NextStrategy == CallCheerio \/ CallPuppeteer

SpecStrategy == InitStrategy /\ [][NextStrategy]_vars

\* ------------------------------------------ the end of a pass, taken alone
\* Variant: the rate cut off after the first decimal
SuccessRate_Truncated(totalSuccess, total) == {(totalSuccess * 1000) \div total}

\* ((totalSuccess / stats.total) * 100).toFixed(1), in tenths of a percent.
\* toFixed prints the tenth nearest to the double it is given.  When the
\* exact quotient lies midway between two tenths, the double lies on the
\* midpoint or just beside it (23 of 80 gives 28.749999999999996), and the
\* tenth printed is the upper or the lower one accordingly.
SuccessRate(totalSuccess, total) ==
    LET scaled == totalSuccess * 1000
        low == scaled \div total
        twice == 2 * (scaled % total)
    IN
    IF twice < total THEN {low}
    ELSE IF twice > total THEN {low + 1}
    ELSE {low, low + 1}

\* The statistics a pass can end with: each selected article succeeded with
\* Cheerio, or failed with Cheerio and then succeeded or failed with Puppeteer.
EndStats ==
    { [total |-> t, cheerioSuccess |-> c, cheerioFailed |-> t - c,
       puppeteerSuccess |-> p, puppeteerFailed |-> t - c - p, skipped |-> 0] :
        t \in 0..MaxTotal, c \in 0..MaxTotal, p \in 0..MaxTotal }
    \cap [total : 0..MaxTotal, cheerioSuccess : 0..MaxTotal, cheerioFailed : 0..MaxTotal,
          puppeteerSuccess : 0..MaxTotal, puppeteerFailed : 0..MaxTotal, skipped : {0}]

InitRate ==
    /\ store = NoRows
    /\ hasUrl = [a \in Articles |-> TRUE]
    /\ probe = NoProbe
    /\ \E st \in EndStats : report = [NoReport EXCEPT !.stats = st]
    /\ pc = [r \in Runs |-> "idle"]
    /\ conn = [r \in Runs |-> "none"]
    /\ exitCode = [r \in Runs |-> NoExit]
    /\ articlesToScrape = [r \in Runs |-> NoRows]
    /\ queried = [r \in Runs |-> NotQueried]
    /\ filteredArticles = [r \in Runs |-> <<>>]
    /\ i = [r \in Runs |-> 0]
    /\ stats = [r \in Runs |-> ZeroStats]
    /\ log = [r \in Runs |-> <<>>]
    /\ completed = [r \in Runs |-> FALSE]
    /\ prevCompleted = [r \in Runs |-> FALSE]

\* if (stats.total === 0) return; ... the final statistics with the rate
EndOfPass ==
    /\ ~report.ended
    /\ LET st == report.stats IN
        IF st.total = 0
        THEN report' = [report EXCEPT !.ended = TRUE]
        ELSE \E n \in SuccessRate(st.cheerioSuccess + st.puppeteerSuccess, st.total) :
                report' = [report EXCEPT !.ended = TRUE, !.rate = {n}]
    /\ UNCHANGED <<runVars, probe>>

NextRate == EndOfPass

SpecRate == InitRate /\ [][NextRate]_vars

\* ------------------------------------------------------- reading the state
InSeq(x, seq) == \E k \in 1..Len(seq) : seq[k] = x
Selected(r, a) == InSeq(a, filteredArticles[r])

\* Positions of the log of run r where `what` was done for article a
Where(r, what, a) ==
    {k \in 1..Len(log[r]) : log[r][k][1] = what /\ log[r][k][2] = a}
Has(r, what, a) ==
    \E k \in 1..Len(log[r]) : log[r][k][1] = what /\ log[r][k][2] = a

Invocations == {"cheerio", "puppeteer"}
Writes == {"create", "update"}
Invoked(r, a) == \E w \in Invocations : Has(r, w, a)
Written(r, a) == \E w \in Writes : Has(r, w, a)

\* The log entries the step adds (the log grows, or restarts empty)
Added(r) == {log'[r][k] : k \in (Len(log[r]) + 1)..Len(log'[r])}
NoNewWork(a) ==
    \A r \in Runs : \A e \in Added(r) :
        e[2] = a => e[1] \notin Invocations \cup Writes

Cheerio(rows) == rows[1].scrapeStatusCheerio
Puppeteer(rows) == rows[1].scrapeStatusPuppeteer
BothFailed(rows) == HasRow(rows) /\ Cheerio(rows) = Failed /\ Puppeteer(rows) = Failed

\* The iteration for position k of run r is over
Past(r, k) == completed[r] \/ i[r] > k

\* ------------------------------------------------------------------ claims
\* C1: the selector includes an article exactly when it has no record, or
\* its record has lightweightStatus NotAttempted (any robustStatus), or
\* lightweightStatus Failed with robustStatus NotAttempted; it excludes
\* Failed/Failed and every record with lightweightStatus Succeeded.
C1_SelectorRule ==
    \A r \in Runs : queried[r].done =>
        \A a \in Articles :
            LET rows == queried[r].rows[a] IN
            /\ ~HasRow(rows) => Selected(r, a)
            /\ HasRow(rows) =>
                /\ Cheerio(rows) = NotAttempted => Selected(r, a)
                /\ Cheerio(rows) = Failed /\ Puppeteer(rows) = NotAttempted => Selected(r, a)
                /\ Cheerio(rows) = Failed /\ Puppeteer(rows) = Failed => ~Selected(r, a)
                /\ Cheerio(rows) = Failed /\ Puppeteer(rows) = Succeeded => ~Selected(r, a)
                /\ Cheerio(rows) = Succeeded => ~Selected(r, a)

\* A query that saw one article of every kind the rule names apart
C1_Witness ==
    \E r \in Runs : \E a, b \in Articles :
        /\ queried[r].done
        /\ HasRow(queried[r].rows[a]) /\ HasRow(queried[r].rows[b])
        /\ Cheerio(queried[r].rows[a]) = NotAttempted
        /\ Puppeteer(queried[r].rows[a]) = Succeeded
        /\ Selected(r, a)
        /\ Cheerio(queried[r].rows[b]) = Succeeded
        /\ Puppeteer(queried[r].rows[b]) = NotAttempted
        /\ ~Selected(r, b)

\* C2: an article whose record is Failed/Failed when a pass loads it is not
\* selected, gets no strategy invocation and no write in that pass, and its
\* record stays as it was, in every pass.
C2_ExhaustedUntouched ==
    \A r \in Runs : queried[r].done =>
        \A a \in Articles :
            BothFailed(queried[r].rows[a]) =>
                /\ ~Selected(r, a)
                /\ ~Invoked(r, a)
                /\ ~Written(r, a)
                /\ store[a] = queried[r].rows[a]

\* A later pass ran to its end beside an exhausted article, after a pass
\* that ran to its end and stored a text from Puppeteer.
C2_Witness ==
    \E r \in Runs : \E a \in Articles :
        /\ prevCompleted[r] /\ completed[r]
        /\ BothFailed(queried[r].rows[a])
        /\ queried[r].rows[a][1].content = EmptyContent
        /\ hasUrl[a]
        /\ \E b \in Articles :
            /\ HasRow(queried[r].rows[b])
            /\ queried[r].rows[b][1].content.by = "puppeteer"

\* C3: once a record has lightweightStatus Succeeded, no step changes it, no
\* step invokes a strategy or writes for its article, and no query selects
\* the article, whatever its robustStatus is.
C3_LightweightSuccessFinal ==
    [][\A a \in Articles :
        (HasRow(store[a]) /\ Cheerio(store[a]) = Succeeded) =>
            /\ store'[a] = store[a]
            /\ NoNewWork(a)
            /\ \A r \in Runs : pc[r] = "query" => ~InSeq(a, filteredArticles'[r])]_vars

\* A later pass has loaded a record that Cheerio resolved in the pass before
\* and whose robustStatus is NotAttempted.
C3_Witness ==
    \E r \in Runs : \E a \in Articles :
        /\ prevCompleted[r] /\ completed[r]
        /\ store[a] = queried[r].rows[a]
        /\ HasRow(store[a])
        /\ Cheerio(store[a]) = Succeeded
        /\ Puppeteer(store[a]) = NotAttempted
        /\ store[a][1].content.by = "cheerio"
        /\ hasUrl[a]

\* An article counts as resolved when its record has lightweightStatus
\* Succeeded, or robustStatus Succeeded, or both Failed.
Resolved(rows) ==
    /\ HasRow(rows)
    /\ \/ Cheerio(rows) = Succeeded
       \/ Puppeteer(rows) = Succeeded
       \/ BothFailed(rows)
AllResolved(rows) == \A a \in Articles : Resolved(rows[a])

\* C4: idempotence.  When the pass before ran to its end and this pass finds
\* every article resolved, this pass invokes no strategy and writes nothing.
C4_Idempotent ==
    \A r \in Runs :
        (prevCompleted[r] /\ queried[r].done /\ AllResolved(queried[r].rows)) =>
            /\ \A a \in Articles : ~Invoked(r, a) /\ ~Written(r, a)
            /\ store = queried[r].rows

\* A pass did extraction work and ran to its end, every article is resolved,
\* and the next pass has run to its end as well.
C4_Witness ==
    \E r \in Runs :
        /\ prevCompleted[r]
        /\ queried[r].done /\ AllResolved(queried[r].rows)
        /\ \E a \in Articles : queried[r].rows[a][1].content.by \in {"cheerio", "puppeteer"}
        /\ completed[r] /\ pc[r] = "exited" /\ exitCode[r] = "0"

\* C5 as stated: a record that holds non-empty content is never retried,
\* whatever its statuses: no strategy is invoked for its article and its
\* content is not overwritten.
C5_ContentNeverRetried ==
    \A r \in Runs : queried[r].done =>
        \A a \in Articles :
            LET rows == queried[r].rows[a] IN
            (HasRow(rows) /\ Truthy(rows[1].content)) =>
                /\ ~Invoked(r, a)
                /\ store[a][1].content = rows[1].content

\* The statuses under which a pass leaves a record alone
Settled(rows) ==
    /\ HasRow(rows)
    /\ \/ Cheerio(rows) = Succeeded
       \/ Cheerio(rows) = Failed /\ Puppeteer(rows) # NotAttempted

\* C5 amended: a record that holds non-empty content is never retried when
\* its lightweightStatus is Succeeded, or Failed with robustStatus Succeeded
\* or Failed.  With lightweightStatus NotAttempted, or Failed with
\* robustStatus NotAttempted, its article is selected and, when it has a URL,
\* a strategy is invoked for it, whose success replaces the content.
C5_ContentRetriedByStatus ==
    \A r \in Runs : queried[r].done =>
        \A a \in Articles :
            LET rows == queried[r].rows[a] IN
            (HasRow(rows) /\ Truthy(rows[1].content)) =>
                /\ Settled(rows) =>
                    /\ ~Selected(r, a)
                    /\ ~Invoked(r, a)
                    /\ store[a] = rows
                /\ ~Settled(rows) =>
                    /\ Selected(r, a)
                    /\ \A k \in 1..Len(filteredArticles[r]) :
                        (filteredArticles[r][k] = a /\ hasUrl[a] /\ Past(r, k)) =>
                            Invoked(r, a)
                    /\ \A k \in 1..Len(log[r]) :
                        (/\ log[r][k][1] \in {"cheerioOk", "puppeteerOk"}
                         /\ log[r][k][2] = a
                         /\ ~Has(r, "dbfail", a)) =>
                            store[a][1].content = log[r][k][3]

\* A pass replaced content that a record held with lightweightStatus
\* NotAttempted, beside an untouched record with content and settled statuses.
C5_Witness ==
    \E r \in Runs : \E a, b \in Articles :
        /\ queried[r].done /\ completed[r]
        /\ HasRow(queried[r].rows[a])
        /\ queried[r].rows[a][1].content = UpstreamContent
        /\ Cheerio(queried[r].rows[a]) = NotAttempted
        /\ Has(r, "cheerioOk", a)
        /\ store[a][1].content.by = "cheerio"
        /\ HasRow(queried[r].rows[b])
        /\ queried[r].rows[b][1].content = UpstreamContent
        /\ Settled(queried[r].rows[b])
        /\ hasUrl[b]

\* The record of article a as run r expects it after writing `fields` (or
\* creating `row` when the query saw no record)
Expect(r, a, fields, row) ==
    IF HasRow(queried[r].rows[a])
    THEN <<Merge(queried[r].rows[a][1], fields)>>
    ELSE <<row>>
WriteKind(r, a) == IF HasRow(queried[r].rows[a]) THEN "update" ELSE "create"

\* The write that follows the strategy result at position k did not fail
Stored(r, k) == log[r][k + 1][1] # "dbfail"

\* C6: when the lightweight strategy succeeds and the write goes through,
\* the record is created or updated with the result's content and
\* lightweightStatus Succeeded (robustStatus as it was, NotAttempted in a new
\* record), cheerioSuccess counts the success, and the robust strategy is not
\* invoked for that article in that pass.
C6_LightweightSuccess ==
    \A r \in Runs :
        /\ \A k \in 1..Len(log[r]) :
            LET a == log[r][k][2]
                c == log[r][k][3]
            IN
            (log[r][k][1] = "cheerioOk" /\ Stored(r, k)) =>
                /\ log[r][k + 1] = Did(WriteKind(r, a), a)
                /\ store[a] = Expect(r, a,
                                [content |-> c, scrapeStatusCheerio |-> Succeeded],
                                ContentRow(c, Succeeded, NotAttempted))
                /\ Truthy(c)
                /\ ~Has(r, "puppeteer", a)
                /\ Cardinality(Where(r, "cheerio", a)) = 1
        /\ stats[r].cheerioSuccess =
            Cardinality({k \in 1..Len(log[r]) :
                            log[r][k][1] = "cheerioOk" /\ Stored(r, k)})

\* One pass resolved two articles by Cheerio, one with a record and one
\* without, and ran to its end.
C6_Witness ==
    \E r \in Runs : \E a, b \in Articles :
        /\ completed[r]
        /\ Has(r, "cheerioOk", a) /\ Has(r, "update", a)
        /\ Has(r, "cheerioOk", b) /\ Has(r, "create", b)
        /\ stats[r].cheerioSuccess = 2

\* C7: when the lightweight strategy fails and the write goes through, the
\* record has lightweightStatus Failed (a new record has empty content and
\* robustStatus NotAttempted), the next thing the run does is to invoke the
\* robust strategy for the same article, and the robust outcome, once
\* written, sets robustStatus to Succeeded with the result's content, or to
\* Failed.
C7_LightweightFailureCascades ==
    \A r \in Runs : \A k \in 1..Len(log[r]) :
        LET a == log[r][k][2]
            failed == [scrapeStatusCheerio |-> Failed]
        IN
        (log[r][k][1] = "cheerioFail" /\ Stored(r, k)) =>
            /\ log[r][k + 1] = Did(WriteKind(r, a), a)
            /\ log[r][k + 2] = Did("puppeteer", a)
            /\ Cheerio(store[a]) = Failed
            /\ Len(log[r]) = k + 2 =>
                store[a] = Expect(r, a, failed, ContentRow(EmptyContent, Failed, NotAttempted))
            /\ Len(log[r]) > k + 2 =>
                /\ log[r][k + 3][1] \in {"puppeteerOk", "puppeteerFail"}
                /\ log[r][k + 3][2] = a
                /\ (log[r][k + 3][1] = "puppeteerOk" /\ Stored(r, k + 3)) =>
                    store[a] = Expect(r, a,
                        [content |-> log[r][k + 3][3], scrapeStatusCheerio |-> Failed,
                         scrapeStatusPuppeteer |-> Succeeded],
                        ContentRow(log[r][k + 3][3], Failed, Succeeded))
                /\ (log[r][k + 3][1] = "puppeteerFail" /\ Stored(r, k + 3)) =>
                    store[a] = Expect(r, a,
                        [scrapeStatusCheerio |-> Failed, scrapeStatusPuppeteer |-> Failed],
                        ContentRow(EmptyContent, Failed, Failed))
                /\ ~Stored(r, k + 3) =>
                    store[a] = Expect(r, a, failed,
                                      ContentRow(EmptyContent, Failed, NotAttempted))

\* One pass took two articles through the cascade, one ending in a robust
\* success and one in a robust failure, the second of them without a record
\* before.
C7_Witness ==
    \E r \in Runs : \E a, b \in Articles :
        /\ completed[r]
        /\ Has(r, "cheerioFail", a) /\ Has(r, "puppeteerOk", a) /\ Has(r, "update", a)
        /\ Puppeteer(store[a]) = Succeeded
        /\ Has(r, "cheerioFail", b) /\ Has(r, "puppeteerFail", b) /\ Has(r, "create", b)
        /\ BothFailed(store[b])

\* Article a stands at a position of the selection whose iteration is over
Processed(r, a) ==
    \E k \in 1..Len(filteredArticles[r]) : filteredArticles[r][k] = a /\ Past(r, k)

\* C8: for an article with a URL whose record is loaded with lightweightStatus
\* Failed and robustStatus NotAttempted, the pass invokes the robust strategy
\* once and never the lightweight one; a success that is written sets content
\* and robustStatus Succeeded, a failure that is written sets robustStatus
\* Failed, and lightweightStatus is Failed throughout.
C8_ResumeRobustOnly ==
    \A r \in Runs : queried[r].done =>
        \A a \in Articles :
            LET rows == queried[r].rows[a] IN
            (/\ hasUrl[a] /\ HasRow(rows)
             /\ Cheerio(rows) = Failed /\ Puppeteer(rows) = NotAttempted) =>
                /\ Selected(r, a)
                /\ ~Has(r, "cheerio", a)
                /\ Cardinality(Where(r, "puppeteer", a)) <= 1
                /\ Processed(r, a) => Cardinality(Where(r, "puppeteer", a)) = 1
                /\ Cheerio(store[a]) = Failed
                /\ \A k \in 1..Len(log[r]) :
                    /\ (log[r][k] = <<"puppeteerOk", a, log[r][k][3]>> /\ Stored(r, k)) =>
                        store[a] = <<ContentRow(log[r][k][3], Failed, Succeeded)>>
                    /\ (log[r][k] = <<"puppeteerFail", a, log[r][k][3]>> /\ Stored(r, k)) =>
                        store[a] = <<ContentRow(rows[1].content, Failed, Failed)>>
                /\ ~Written(r, a) => store[a] = rows

\* One pass resumed two articles at the robust strategy, one to a success and
\* one to a failure, and ran to its end.
C8_Witness ==
    \E r \in Runs : \E a, b \in Articles :
        /\ completed[r] /\ hasUrl[a] /\ hasUrl[b]
        /\ HasRow(queried[r].rows[a]) /\ HasRow(queried[r].rows[b])
        /\ Cheerio(queried[r].rows[a]) = Failed /\ Puppeteer(queried[r].rows[a]) = NotAttempted
        /\ Cheerio(queried[r].rows[b]) = Failed /\ Puppeteer(queried[r].rows[b]) = NotAttempted
        /\ Has(r, "puppeteerOk", a) /\ Puppeteer(store[a]) = Succeeded
        /\ Has(r, "puppeteerFail", b) /\ Puppeteer(store[b]) = Failed

\* C9: for every selected article that has a URL and no record, the pass
\* invokes the lightweight strategy exactly once, and before any robust
\* invocation for that article.
C9_LightweightFirstOnce ==
    \A r \in Runs : queried[r].done =>
        \A a \in Articles :
            (hasUrl[a] /\ ~HasRow(queried[r].rows[a])) =>
                /\ Selected(r, a)
                /\ Cardinality(Where(r, "cheerio", a)) <= 1
                /\ Processed(r, a) => Cardinality(Where(r, "cheerio", a)) = 1
                /\ \A p \in Where(r, "puppeteer", a) :
                    \E c \in Where(r, "cheerio", a) : c < p

\* A pass that ran to its end invoked Cheerio and then Puppeteer for an
\* article without a record, and Cheerio alone for another.
C9_Witness ==
    \E r \in Runs : \E a, b \in Articles :
        /\ completed[r] /\ hasUrl[a] /\ hasUrl[b] /\ a # b
        /\ ~HasRow(queried[r].rows[a]) /\ ~HasRow(queried[r].rows[b])
        /\ Has(r, "cheerio", a) /\ Has(r, "puppeteer", a)
        /\ Has(r, "cheerio", b) /\ ~Has(r, "puppeteer", b)

\* The robust strategy is running for the current article of run r
RobustInFlight(r) == pc[r] \in {"cascade", "puppeteer"}

\* C10: while the robust strategy runs for an article, from the moment of its
\* invocation, that article's record exists in the store and has
\* lightweightStatus Failed, in the cascade as in the resume path.
C10_RobustOnlyAfterLightweightFailed ==
    \A r \in Runs :
        RobustInFlight(r) =>
            /\ HasRow(store[Article(r)])
            /\ Cheerio(store[Article(r)]) = Failed

\* The robust strategy runs in the cascade for an article whose record the
\* same pass has just created.
C10_Witness ==
    \E r \in Runs :
        /\ pc[r] = "cascade"
        /\ ~HasRow(queried[r].rows[Article(r)])
        /\ Has(r, "create", Article(r))
        /\ store[Article(r)] = <<ContentRow(EmptyContent, Failed, NotAttempted)>>

Decided == {Succeeded, Failed}
Times(r, what, a) == Cardinality(Where(r, what, a))

\* C11 as stated: a strategy whose status is Succeeded or Failed when a pass
\* loads the record is not invoked for that article in that pass and its
\* status keeps its value, for every loaded record, lightweightStatus
\* NotAttempted with robustStatus Succeeded or Failed included.
C11_DecidedStatusTerminal ==
    \A r \in Runs : queried[r].done =>
        \A a \in Articles :
            LET rows == queried[r].rows[a] IN
            HasRow(rows) =>
                /\ Cheerio(rows) \in Decided =>
                    /\ ~Has(r, "cheerio", a)
                    /\ HasRow(store[a]) /\ Cheerio(store[a]) = Cheerio(rows)
                /\ Puppeteer(rows) \in Decided =>
                    /\ ~Has(r, "puppeteer", a)
                    /\ HasRow(store[a]) /\ Puppeteer(store[a]) = Puppeteer(rows)

\* C11 amended: a lightweightStatus loaded as Succeeded or Failed is final,
\* and so is a robustStatus loaded as Succeeded or Failed beside a
\* lightweightStatus other than NotAttempted; within a pass each strategy is
\* invoked at most once per article and a status the pass has written keeps
\* that value.  A robustStatus loaded as Succeeded or Failed beside
\* lightweightStatus NotAttempted is not final: the article is selected, and
\* when its lightweight attempt fails the cascade invokes the robust
\* strategy, whose outcome overwrites robustStatus.
C11_DecidedStatusTerminalUnlessCascade ==
    \A r \in Runs : queried[r].done =>
        \A a \in Articles :
            LET rows == queried[r].rows[a] IN
            /\ Times(r, "cheerio", a) <= 1
            /\ Times(r, "puppeteer", a) <= 1
            /\ \A k \in Where(r, "cheerioOk", a) :
                Stored(r, k) => Cheerio(store[a]) = Succeeded
            /\ \A k \in Where(r, "cheerioFail", a) :
                Stored(r, k) => Cheerio(store[a]) = Failed
            /\ \A k \in Where(r, "puppeteerOk", a) :
                Stored(r, k) => Puppeteer(store[a]) = Succeeded
            /\ \A k \in Where(r, "puppeteerFail", a) :
                Stored(r, k) => Puppeteer(store[a]) = Failed
            /\ HasRow(rows) =>
                /\ Cheerio(rows) \in Decided =>
                    /\ ~Has(r, "cheerio", a)
                    /\ HasRow(store[a]) /\ Cheerio(store[a]) = Cheerio(rows)
                /\ (Puppeteer(rows) \in Decided /\ Cheerio(rows) # NotAttempted) =>
                    /\ ~Has(r, "puppeteer", a)
                    /\ HasRow(store[a]) /\ Puppeteer(store[a]) = Puppeteer(rows)
                /\ ( /\ Puppeteer(rows) \in Decided /\ Cheerio(rows) = NotAttempted
                     /\ hasUrl[a] /\ Processed(r, a)
                     /\ \E k \in Where(r, "cheerioFail", a) : Stored(r, k) ) =>
                    Has(r, "puppeteer", a)

\* A pass ran to its end on a record loaded as NotAttempted / Succeeded:
\* Cheerio failed, the cascade ran Puppeteer again, and the record is now
\* Failed / Failed.
C11_Witness ==
    \E r \in Runs : \E a \in Articles :
        /\ completed[r] /\ hasUrl[a]
        /\ HasRow(queried[r].rows[a])
        /\ Cheerio(queried[r].rows[a]) = NotAttempted
        /\ Puppeteer(queried[r].rows[a]) = Succeeded
        /\ Has(r, "cheerio", a) /\ Has(r, "puppeteer", a)
        /\ BothFailed(store[a])

\* C12: a selected article without URL is only counted.  The selector yields
\* it and total counts it; the pass logs one skip for it, no strategy
\* invocation, no strategy result and no write, and its rows stay as loaded;
\* skipped is the number of skips logged.
C12_NoUrlOnlyCounted ==
    \A r \in Runs : queried[r].done =>
        /\ stats[r].total = Len(filteredArticles[r])
        /\ stats[r].skipped = Cardinality({k \in 1..Len(log[r]) : log[r][k][1] = "skip"})
        /\ \A a \in Articles :
            /\ Has(r, "skip", a) => ~hasUrl[a]
            /\ (~hasUrl[a] /\ ShouldScrape(queried[r].rows[a])) =>
                /\ Selected(r, a)
                /\ \A k \in 1..Len(log[r]) : log[r][k][2] = a => log[r][k][1] = "skip"
                /\ store[a] = queried[r].rows[a]
                /\ Times(r, "skip", a) = (IF Processed(r, a) THEN 1 ELSE 0)

\* A pass ran to its end over an article without URL and without record, and
\* over another article for which it worked.
C12_Witness ==
    \E r \in Runs : \E a, b \in Articles :
        /\ completed[r]
        /\ ~hasUrl[a] /\ ~HasRow(queried[r].rows[a]) /\ ~HasRow(store[a])
        /\ stats[r].skipped = 1 /\ stats[r].total = 2
        /\ Has(r, "skip", a)
        /\ Written(r, b)

\* The process of run r has ended by its own process.exit
Exited(r) == pc[r] = "exited" /\ exitCode[r] \in {"0", "1"}
\* A persistence operation of run r has failed
PersistenceFailed(r) == \E k \in 1..Len(log[r]) : log[r][k][1] = "dbfail"
\* sequelize.close() of run r was called
CloseCalled(r) == pc[r] = "exited" /\ completed[r]

\* C13: on every exit path of the process (the pass completed, zero eligible
\* articles, fatal error) a connection that was opened has been closed, or at
\* the least its close has been called, before the process exits.
C13_ConnectionClosedOnExit ==
    \A r \in Runs :
        (Exited(r) /\ conn[r] # "none") => (conn[r] = "closed" \/ CloseCalled(r))

\* C14: a failed persistence operation (connect, read, create, update) is
\* fatal and is not retried: it is the last thing the run does, the process
\* has exited with code 1, and nothing is invoked or written after it; a run
\* whose connect or query failed has selected nothing and done nothing.
C14_PersistenceFailureFatal ==
    \A r \in Runs :
        /\ \A k \in 1..Len(log[r]) :
            log[r][k][1] = "dbfail" =>
                /\ k = Len(log[r])
                /\ pc[r] = "exited" /\ exitCode[r] = "1"
        /\ (PersistenceFailed(r) /\ ~queried[r].done) =>
                /\ Len(log[r]) = 1
                /\ filteredArticles[r] = <<>>
        /\ (PersistenceFailed(r) /\ ~completed[r] /\ queried[r].done) =>
            \* the articles after the current one are untouched
            \A k \in 1..Len(filteredArticles[r]) :
                k > i[r] =>
                    LET a == filteredArticles[r][k] IN
                    /\ ~Invoked(r, a) /\ ~Written(r, a)
                    /\ store[a] = queried[r].rows[a]

\* A write failed on the first of two selected articles, after its Cheerio
\* call had returned a text: nothing is stored for either article.
C14_Witness ==
    \E r \in Runs :
        /\ PersistenceFailed(r) /\ queried[r].done /\ ~completed[r]
        /\ Len(filteredArticles[r]) = 2 /\ i[r] = 1
        /\ \A a \in Articles : hasUrl[a]
        /\ Has(r, "cheerioOk", filteredArticles[r][1])
        /\ store = queried[r].rows

\* An exception escaped from the per-article logic of run r
Escaped(r) == \E k \in 1..Len(log[r]) : log[r][k][1] = "threw"
StrategyFailures == {"cheerioFail", "puppeteerFail"}

\* C15: a process that exits by itself exits with 0 exactly when the pass
\* ran to its end (zero eligible articles included) with no fatal error, and
\* with 1 exactly when a fatal error occurred, i.e. a persistence operation
\* failed or an exception escaped; strategy failures alone give 0.
C15_ExitCode ==
    \A r \in Runs :
        Exited(r) =>
            /\ exitCode[r] = "0" <=> (completed[r] /\ ~PersistenceFailed(r) /\ ~Escaped(r))
            /\ exitCode[r] = "1" <=> (PersistenceFailed(r) \/ Escaped(r))
            /\ exitCode[r] = "1" => log[r][Len(log[r])][1] \notin StrategyFailures

\* A pass in which both strategies failed for an article exited with 0.
C15_Witness ==
    \E r \in Runs : \E a \in Articles :
        /\ Exited(r) /\ exitCode[r] = "0"
        /\ Has(r, "cheerioFail", a) /\ Has(r, "puppeteerFail", a)
        /\ BothFailed(store[a])

\* The pass of run r went over every selected article, printed its summary
\* and the process ended
PassDone(r) ==
    /\ pc[r] = "exited" /\ completed[r]
    /\ \A a \in Articles : Selected(r, a) => Processed(r, a)
    /\ i[r] = Len(filteredArticles[r]) + (IF filteredArticles[r] = <<>> THEN 0 ELSE 1)

\* C16: a run whose strategy calls all return and that is not terminated
\* from outside ends, and unless a persistence operation failed it ends with
\* every selected article processed and the summary reached, whatever the
\* strategies returned.
C16_PassReachesSummary ==
    <>(\A r \in SeqRuns :
        /\ pc[r] = "exited"
        /\ ~PersistenceFailed(r) => (PassDone(r) /\ exitCode[r] = "0"))

\* The pass is done although both strategies failed for one article and
\* Cheerio failed for the other.
C16_Witness ==
    \E r \in SeqRuns :
        /\ PassDone(r) /\ ~PersistenceFailed(r)
        /\ Len(filteredArticles[r]) = 2
        /\ stats[r].cheerioFailed = 2 /\ stats[r].puppeteerFailed >= 1

\* What the threshold asks of a result for an extracted text of n characters
Verdict(res, n) ==
    IF n < MinContentLength
    THEN ~res.success /\ res.error = "Content too short" /\ ~res.thrown
    ELSE res.success /\ res.content.len = n /\ res.error = "none" /\ ~res.thrown

\* C17: both strategies classify an extracted text by the same boundary:
\* fewer than 200 characters (199, or none) is a failure with the error
\* Content too short, 200 or more is a success carrying that text; on texts
\* of equal length the two strategies give the same verdict.
C17_SameThreshold ==
    LET ce == probe.cheerioEnv
        pe == probe.puppeteerEnv
    IN
    /\ ("cheerio" \in probe.called /\ ce.fault = "none") =>
            /\ Verdict(probe.cheerio, ce.len)
            /\ probe.cheerio.success => probe.cheerio.content.by = "cheerio"
    /\ ("puppeteer" \in probe.called /\ pe.fault = "none") =>
            /\ Verdict(probe.puppeteer, pe.len)
            /\ probe.puppeteer.success => probe.puppeteer.content.by = "puppeteer"
    /\ ( /\ probe.called = {"cheerio", "puppeteer"}
         /\ ce.fault = "none" /\ pe.fault = "none" /\ ce.len = pe.len ) =>
            /\ probe.cheerio.success = probe.puppeteer.success
            /\ probe.cheerio.error = probe.puppeteer.error

\* Cheerio was called on a text one character short and failed, Puppeteer on
\* a text of exactly the minimum and succeeded.
C17_Witness ==
    /\ probe.called = {"cheerio", "puppeteer"}
    /\ probe.cheerioEnv = [fault |-> "none", len |-> MinContentLength - 1]
    /\ probe.puppeteerEnv.fault = "none" /\ probe.puppeteerEnv.len = MinContentLength
    /\ ~probe.cheerio.success
    /\ probe.puppeteer.success

\* C18: a strategy call never throws to its caller.  Whatever stage the
\* fault hits (fetch or parse; launch, page or close, with the close in the
\* catch block failing or not), the call returns a result with success
\* false and the error of the fault.
C18_StrategyNeverThrows ==
    /\ "cheerio" \in probe.called =>
        /\ ~probe.cheerio.thrown
        /\ probe.cheerioEnv.fault # "none" =>
            /\ ~probe.cheerio.success
            /\ probe.cheerio.error = probe.cheerioEnv.fault
    /\ "puppeteer" \in probe.called =>
        /\ ~probe.puppeteer.thrown
        /\ probe.puppeteerEnv.fault # "none" =>
            /\ ~probe.puppeteer.success
            /\ probe.puppeteer.error = probe.puppeteerEnv.fault

\* Puppeteer was called where browser.close() rejects in the try block and
\* again in the catch block, Cheerio where the fetch fails: both returned.
C18_Witness ==
    /\ probe.called = {"cheerio", "puppeteer"}
    /\ probe.puppeteerEnv.fault = "close" /\ probe.puppeteerEnv.cleanupFails
    /\ probe.cheerioEnv.fault = "fetch"
    /\ ~probe.puppeteer.success /\ ~probe.cheerio.success

Returns == {"cheerioOk", "cheerioFail", "puppeteerOk", "puppeteerFail"}
\* Strategy calls of run r, and strategy results of run r that were stored
Calls(r) == {k \in 1..Len(log[r]) : log[r][k][1] \in Invocations}
StoredReturns(r) == {k \in 1..Len(log[r]) : log[r][k][1] \in Returns /\ Stored(r, k)}
NoLightweightOutcome(rows) == ~HasRow(rows) \/ Cheerio(rows) = NotAttempted
RobustPending(rows) ==
    HasRow(rows) /\ Cheerio(rows) = Failed /\ Puppeteer(rows) = NotAttempted

\* C19: wherever a run is terminated, (a) a status that differs from the one
\* loaded and is Succeeded or Failed was written after a call of that
\* strategy for that article returned that outcome, (b) at most one strategy
\* call of the run has no stored outcome, and (c) the strategy a pass picks
\* first for an article follows from the record it loads: Cheerio exactly
\* when no lightweight outcome is recorded, Puppeteer exactly when the
\* record is Failed / NotAttempted.
C19_CrashLeavesConsistentRecord ==
    \A r \in Runs : queried[r].done =>
        /\ Cardinality(Calls(r)) - Cardinality(StoredReturns(r)) \in {0, 1}
        /\ \A a \in Articles :
            LET rows == queried[r].rows[a] IN
            /\ ( /\ HasRow(store[a])
                 /\ NoLightweightOutcome(rows)
                 /\ Cheerio(store[a]) \in Decided ) =>
                    Has(r, IF Cheerio(store[a]) = Succeeded
                           THEN "cheerioOk" ELSE "cheerioFail", a)
            /\ ( /\ HasRow(store[a])
                 /\ Puppeteer(store[a]) \in Decided
                 /\ ~HasRow(rows) \/ Puppeteer(store[a]) # Puppeteer(rows) ) =>
                    Has(r, IF Puppeteer(store[a]) = Succeeded
                           THEN "puppeteerOk" ELSE "puppeteerFail", a)
            /\ Has(r, "cheerio", a) => NoLightweightOutcome(rows)
            /\ (Has(r, "puppeteer", a) /\ ~Has(r, "cheerio", a)) => RobustPending(rows)
            /\ (hasUrl[a] /\ Processed(r, a)) =>
                /\ NoLightweightOutcome(rows) => Has(r, "cheerio", a)
                /\ RobustPending(rows) => Has(r, "puppeteer", a)

\* A pass that followed an unfinished pass found Cheerio's text for one
\* article and Failed / NotAttempted for another, called Puppeteer only for
\* the latter, and was terminated while that call was running.
C19_Witness ==
    \E r \in Runs : \E a, b \in Articles :
        /\ ~prevCompleted[r] /\ queried[r].done
        /\ HasRow(queried[r].rows[b]) /\ queried[r].rows[b][1].content.by = "cheerio"
        /\ RobustPending(queried[r].rows[a])
        /\ Has(r, "puppeteer", a) /\ ~Has(r, "cheerio", a)
        /\ exitCode[r] = "killed"
        /\ Cardinality(Calls(r)) = 1 /\ StoredReturns(r) = {}
        /\ store[a] = queried[r].rows[a]

\* C20: two runs at once can race, because each decides from the records it
\* loaded and writes without comparing.  A run invokes a strategy for every
\* article with a URL that it selected and has gone over, whatever the other
\* run has invoked or stored for that article since; the result it stores
\* for an article it loaded without record is stored by create, and the
\* result it stores for a loaded record by update, whatever the store holds
\* by then.
C20_RunsDecideOnSnapshot ==
    \A r \in Runs : queried[r].done =>
        \A a \in Articles :
            /\ (Selected(r, a) /\ hasUrl[a] /\ Processed(r, a)) => Invoked(r, a)
            /\ \A k \in Where(r, "cheerioOk", a) \cup Where(r, "cheerioFail", a) :
                Stored(r, k) => log[r][k + 1][1] = WriteKind(r, a)

\* Both runs loaded an article without record and both called Cheerio for
\* it.  Run A stored its success in a new row; run B, whose call failed,
\* stored a second row, went on to Puppeteer and wrote Puppeteer's outcome
\* into the row of run A, found by findOne.
C20_Witness ==
    \E a \in Articles :
        /\ queried["A"].done /\ queried["B"].done
        /\ ~HasRow(queried["A"].rows[a]) /\ ~HasRow(queried["B"].rows[a])
        /\ Has("A", "cheerio", a) /\ Has("B", "cheerio", a)
        /\ Has("A", "cheerioOk", a) /\ Has("B", "cheerioFail", a)
        /\ Has("B", "findOne", a)
        /\ Len(store[a]) = 2
        /\ Cheerio(store[a]) = Succeeded /\ Puppeteer(store[a]) \in Decided
        /\ store[a][2].scrapeStatusCheerio = Failed

\* C21: within one run the rows of an article are never deleted; a row is
\* created only for an article that had none when the run loaded it, and at
\* most once; a loaded row is updated in place.  So an article that had no
\* row or one row never has more than one.
C21_NoDuplicateRecord ==
    \A r \in Runs : queried[r].done =>
        \A a \in Articles :
            LET rows == queried[r].rows[a]
                created == Times(r, "create", a)
            IN
            /\ Len(store[a]) >= Len(rows)
            /\ created > 0 => ~HasRow(rows)
            /\ created <= 1
            /\ HasRow(rows) => Len(store[a]) = Len(rows)
            /\ Len(rows) <= 1 => Len(store[a]) <= 1
            /\ Len(store[a]) = Len(rows) + created

\* A pass ran to its end: it created the row of one article and updated it
\* in the cascade, and it updated the loaded row of another article.
C21_Witness ==
    \E r \in Runs : \E a, b \in Articles :
        /\ completed[r]
        /\ ~HasRow(queried[r].rows[a])
        /\ Has(r, "create", a) /\ Has(r, "update", a) /\ Len(store[a]) = 1
        /\ HasRow(queried[r].rows[b])
        /\ Has(r, "update", b) /\ ~Has(r, "create", b) /\ Len(store[b]) = 1

RobustResolved(rows) ==
    HasRow(rows) /\ Cheerio(rows) = Failed /\ Puppeteer(rows) = Succeeded

\* C22: an article whose record is Failed / Succeeded when a pass loads it
\* is not selected, gets no strategy invocation and no write in that pass,
\* and its record stays as it was, in every pass; and once a pass has stored
\* a Puppeteer success for an article it does nothing more for that article.
C22_RobustResolvedTerminal ==
    \A r \in Runs : queried[r].done =>
        \A a \in Articles :
            /\ RobustResolved(queried[r].rows[a]) =>
                /\ ~Selected(r, a)
                /\ ~Invoked(r, a)
                /\ ~Written(r, a)
                /\ store[a] = queried[r].rows[a]
            /\ \A k \in Where(r, "puppeteerOk", a) :
                Stored(r, k) =>
                    /\ Puppeteer(store[a]) = Succeeded
                    /\ store[a][1].content = log[r][k][3]
                    /\ \A l \in (k + 1)..Len(log[r]) :
                        log[r][l][2] = a => log[r][l][1] \in {"findOne", "update", "delay"}

\* A pass that followed a completed pass loaded a record Failed / Succeeded
\* holding Puppeteer's text, and ran to its end beside it.
C22_Witness ==
    \E r \in Runs : \E a \in Articles :
        /\ prevCompleted[r] /\ completed[r] /\ hasUrl[a]
        /\ RobustResolved(queried[r].rows[a])
        /\ queried[r].rows[a][1].content.by = "puppeteer"
        /\ store[a] = queried[r].rows[a]

\* The result entry that answers a call entry
Answers(call, ret) ==
    /\ ret[2] = call[2]
    /\ \/ call[1] = "cheerio" /\ ret[1] \in {"cheerioOk", "cheerioFail", "threw"}
       \/ call[1] = "puppeteer" /\ ret[1] \in {"puppeteerOk", "puppeteerFail", "threw"}
InFlight == {"cheerio", "cascade", "puppeteer"}

\* C23: the selected articles are in enumeration order and are worked one
\* after another in that order: what the pass logs never goes back to an
\* earlier article, nothing is logged for an article the loop has not
\* reached, every strategy call is answered before anything else is logged,
\* and a call without answer is the last thing logged, so no two attempts
\* are ever in flight.
C23_StrictlySequential ==
    \A r \in Runs : queried[r].done =>
        LET f == filteredArticles[r]
            l == log[r]
        IN
        /\ \A k \in 1..(Len(f) - 1) : f[k] < f[k + 1]
        /\ \A k \in 1..(Len(l) - 1) :
            /\ l[k + 1][2] \in Articles => l[k][2] <= l[k + 1][2]
            /\ l[k][1] \in Invocations => Answers(l[k], l[k + 1])
        /\ \A k \in 1..Len(l) :
            l[k][2] \in Articles =>
                \E p \in 1..Len(f) : f[p] = l[k][2] /\ p <= i[r]
        /\ (l # <<>> /\ l[Len(l)][1] \in Invocations) =>
                pc[r] \in InFlight \cup {"exited"}
        /\ pc[r] \in InFlight =>
                /\ l[Len(l)][1] \in Invocations
                /\ l[Len(l)][2] = Article(r)

\* A pass ran to its end over two articles: Cheerio and then Puppeteer for
\* the first, the delay, then Cheerio and Puppeteer for the second.
C23_Witness ==
    \E r \in Runs : \E a, b \in Articles :
        /\ completed[r] /\ a < b
        /\ Has(r, "cheerioFail", a) /\ Has(r, "puppeteer", a)
        /\ Has(r, "cheerioFail", b) /\ Has(r, "puppeteer", b)
        /\ \A k \in Where(r, "puppeteerFail", a) \cup Where(r, "puppeteerOk", a) :
            \A m \in Where(r, "cheerio", b) : k < m
        /\ Has(r, "delay", a)

\* C24 as stated: once the loop has gone past a selected article that is
\* not the last of the pass, a delay has been made after it; no delay is
\* made after the last one.
C24_DelayBetweenArticles ==
    \A r \in Runs : queried[r].done =>
        LET f == filteredArticles[r] IN
        \A p \in 1..Len(f) :
            /\ (p < Len(f) /\ i[r] > p) => Has(r, "delay", f[p])
            /\ p = Len(f) => ~Has(r, "delay", f[p])

\* C24 amended: once the loop has gone past a selected article that has a
\* URL and is not the last of the pass, exactly one delay has been made
\* after it, before anything is logged for a later article; no delay is
\* made after the last article, and none after an article without URL,
\* which the loop leaves by continue.
C24_DelayAfterWorkedArticles ==
    \A r \in Runs : queried[r].done =>
        LET f == filteredArticles[r] IN
        \A p \in 1..Len(f) :
            /\ (p < Len(f) /\ i[r] > p /\ hasUrl[f[p]]) => Times(r, "delay", f[p]) = 1
            /\ p = Len(f) => ~Has(r, "delay", f[p])
            /\ ~hasUrl[f[p]] => ~Has(r, "delay", f[p])
            /\ \A k \in Where(r, "delay", f[p]) :
                /\ \A m \in 1..(k - 1) : log[r][m][2] <= f[p]
                /\ \A m \in (k + 1)..Len(log[r]) :
                    log[r][m][2] \in Articles => log[r][m][2] > f[p]

\* A pass ran to its end over two articles it worked for: one delay after
\* the first, none after the second.
C24_Witness ==
    \E r \in Runs : \E a, b \in Articles :
        /\ completed[r] /\ a < b
        /\ Selected(r, a) /\ Selected(r, b)
        /\ hasUrl[a] /\ Invoked(r, a) /\ Times(r, "delay", a) = 1
        /\ Invoked(r, b) /\ ~Has(r, "delay", b)

\* C25: a pass that ends with total > 0 prints one rate, which is the tenth
\* of a percent nearest to (cheerioSuccess + puppeteerSuccess) / total * 100
\* and lies between 0 and 100; for total = 4 with two Cheerio successes and
\* one Puppeteer success it is 75.0.  A pass with total = 0 ends without
\* computing a rate.
C25_SuccessRate ==
    report.ended =>
        LET st == report.stats
            s == st.cheerioSuccess + st.puppeteerSuccess
            t == st.total
        IN
        /\ t = 0 => report.rate = {}
        /\ t > 0 =>
            \E n \in 0..1000 :
                /\ report.rate = {n}
                /\ 2 * (n * t - 1000 * s) <= t
                /\ 2 * (1000 * s - n * t) <= t
        /\ (t = 4 /\ st.cheerioSuccess = 2 /\ st.puppeteerSuccess = 1) => report.rate = {750}

\* The pass with total = 4, two Cheerio successes and one Puppeteer success
\* has ended and printed 75.0.
C25_Witness ==
    /\ report.ended
    /\ report.stats.total = 4
    /\ report.stats.cheerioSuccess = 2 /\ report.stats.puppeteerSuccess = 1
    /\ report.rate = {750}

\* C26: within one pass each strategy is invoked at most once for an
\* article, and when both are invoked for it the Puppeteer call comes after
\* the Cheerio call of that article has returned a failure.
C26_NoRetryWithinPass ==
    \A r \in Runs :
        LET l == log[r] IN
        \A k \in Calls(r) : \A j \in 1..(k - 1) :
            l[j][2] = l[k][2] =>
                /\ l[j][1] # l[k][1]
                /\ l[j][1] = "puppeteer" => l[k][1] # "cheerio"
                /\ (l[j][1] = "cheerio" /\ l[k][1] = "puppeteer") =>
                    l[j + 1] = <<"cheerioFail", l[k][2], l[j + 1][3]>>

\* A pass ran to its end after both strategies failed for an article, each
\* invoked once.
C26_Witness ==
    \E r \in Runs : \E a \in Articles :
        /\ completed[r]
        /\ Times(r, "cheerio", a) = 1 /\ Times(r, "puppeteer", a) = 1
        /\ Has(r, "cheerioFail", a) /\ Has(r, "puppeteerFail", a)

\* The selected articles run r has not worked yet, the one the loop is about
\* to decide on included
Ahead(r) ==
    {filteredArticles[r][k] : k \in {n \in 1..Len(filteredArticles[r]) :
        n > i[r] \/ (n = i[r] /\ pc[r] = "article")}}

\* C27: for every selected article that has a URL, exactly one of needsCheerio
\* and needsPuppeteer holds when the loop decides on it, and once the loop is
\* past the article a strategy has been invoked for it.
C27_ExactlyOneStrategyNeeded ==
    \A r \in Runs : queried[r].done =>
        \A a \in Articles :
            (Selected(r, a) /\ hasUrl[a]) =>
                /\ a \in Ahead(r) => (NeedsCheerio(r, a) # NeedsPuppeteer(r, a))
                /\ Processed(r, a) => Invoked(r, a)

\* A pass ran to its end that worked one article with Cheerio first and
\* another one, loaded as Failed / NotAttempted, with Puppeteer only.
C27_Witness ==
    \E r \in Runs : \E a, b \in Articles :
        /\ completed[r] /\ hasUrl[a] /\ hasUrl[b]
        /\ NoLightweightOutcome(queried[r].rows[a])
        /\ Has(r, "cheerio", a)
        /\ RobustPending(queried[r].rows[b])
        /\ Has(r, "puppeteer", b) /\ ~Has(r, "cheerio", b)

\* The record the claim expects once the Puppeteer outcome ret is stored
AfterRobust(ret) ==
    IF ret[1] = "puppeteerOk"
    THEN ContentRow(ret[3], Failed, Succeeded)
    ELSE ContentRow(EmptyContent, Failed, Failed)
\* Run r takes article a through the cascade, or resumes it
InCascade(r, a) == ~HasRow(queried[r].rows[a]) /\ Has(r, "cheerioFail", a)
InResume(r, a) == RobustPending(queried[r].rows[a]) /\ ~Has(r, "cheerio", a)

\* C28: for an article that started without record and whose Cheerio attempt
\* failed, the record after the Puppeteer outcome is stored depends on that
\* outcome alone: the content and robustStatus of the outcome with
\* lightweightStatus Failed, whether Puppeteer ran in the cascade of the same
\* pass or alone in a later pass that loaded the record the failure left.
C28_CascadeAndResumeAgree ==
    \A r \in Runs : queried[r].done =>
        \A a \in Articles :
            (InCascade(r, a) \/ InResume(r, a)) =>
                \A k \in Where(r, "puppeteerOk", a) \cup Where(r, "puppeteerFail", a) :
                    Stored(r, k) => store[a] = <<AfterRobust(log[r][k])>>

\* An earlier pass ended after the Cheerio failure of one article was stored
\* and before a Puppeteer outcome was; this pass resumed that article and took
\* another one through the cascade, with the same Puppeteer outcome, and the
\* two records are equal.
C28_Witness ==
    \E r \in Runs : \E a, b \in Articles :
        /\ completed[r]
        /\ InResume(r, a) /\ InCascade(r, b)
        /\ Has(r, "puppeteerOk", a) /\ Has(r, "puppeteerOk", b)
        /\ HasRow(store[a])
        /\ store[a] = store[b]

\* C29: after a pass that ran to its end without a persistence failure,
\* every article with a URL has a record in a terminal state, the selected
\* ones included: lightweightStatus Succeeded, or lightweightStatus Failed
\* with robustStatus Succeeded or Failed.
C29_ConvergesInOnePass ==
    \A r \in Runs :
        (completed[r] /\ ~PersistenceFailed(r)) =>
            \A a \in Articles : hasUrl[a] => Settled(store[a])

\* A pass ran to its end without a persistence failure after both strategies
\* failed for one selected article and Cheerio succeeded for another.
C29_Witness ==
    \E r \in Runs : \E a, b \in Articles :
        /\ completed[r] /\ ~PersistenceFailed(r)
        /\ hasUrl[a] /\ hasUrl[b]
        /\ Selected(r, a) /\ Selected(r, b)
        /\ Has(r, "puppeteerFail", a) /\ BothFailed(store[a])
        /\ Has(r, "cheerioOk", b) /\ Cheerio(store[b]) = Succeeded

\* C30: at the end of every pass that ran to its end, total = skipped +
\* cheerioSuccess + puppeteerSuccess + puppeteerFailed, cheerioFailed <=
\* puppeteerSuccess + puppeteerFailed, and cheerioSuccess + puppeteerSuccess
\* <= total.
C30_CounterConservation ==
    \A r \in Runs :
        completed[r] =>
            LET st == stats[r] IN
            /\ st.total = st.skipped + st.cheerioSuccess + st.puppeteerSuccess
                            + st.puppeteerFailed
            /\ st.cheerioFailed <= st.puppeteerSuccess + st.puppeteerFailed
            /\ st.cheerioSuccess + st.puppeteerSuccess <= st.total

\* A pass ran to its end that skipped one article and took another through
\* the cascade.
C30_Witness ==
    \E r \in Runs :
        /\ completed[r]
        /\ stats[r].skipped > 0
        /\ stats[r].cheerioFailed > 0
        /\ stats[r].puppeteerSuccess + stats[r].puppeteerFailed > 0

\* The four shapes of a record: statuses and whether a text is held
Shape(row) ==
    <<row.scrapeStatusCheerio, row.scrapeStatusPuppeteer, Truthy(row.content)>>
Shapes ==
    {<<Succeeded, NotAttempted, TRUE>>, <<Failed, NotAttempted, FALSE>>,
     <<Failed, Succeeded, TRUE>>, <<Failed, Failed, FALSE>>}

\* C31: an article that starts without record has, after any sequence of
\* passes, no record or one record, which is Succeeded / NotAttempted with a
\* text, Failed / NotAttempted without, Failed / Succeeded with a text, or
\* Failed / Failed without; so it holds a text exactly when one of its
\* statuses is Succeeded, and robustStatus is set only beside lightweightStatus
\* Failed.
C31_RecordShapes ==
    \A a \in Articles :
        /\ Len(store[a]) <= 1
        /\ HasRow(store[a]) =>
            LET row == store[a][1] IN
            /\ Shape(row) \in Shapes
            /\ Truthy(row.content) <=>
                (row.scrapeStatusCheerio = Succeeded \/ row.scrapeStatusPuppeteer = Succeeded)
            /\ row.scrapeStatusPuppeteer # NotAttempted => row.scrapeStatusCheerio = Failed

\* After a pass that was cut short and one that ran to its end, one article
\* holds a text from Puppeteer beside a Cheerio failure and another is
\* Failed / Failed.
C31_Witness ==
    \E r \in Runs : \E a, b \in Articles :
        /\ completed[r]
        /\ InResume(r, a) /\ Has(r, "puppeteerOk", a)
        /\ HasRow(store[a]) /\ Shape(store[a][1]) = <<Failed, Succeeded, TRUE>>
        /\ Has(r, "puppeteerFail", b)
        /\ HasRow(store[b]) /\ Shape(store[b][1]) = <<Failed, Failed, FALSE>>

CheerioOutcomes == {"cheerioOk", "cheerioFail"}
PuppeteerOutcomes == {"puppeteerOk", "puppeteerFail"}

\* C32: a step that stores a strategy outcome for an article that has a
\* record keeps the number of its rows and changes only the fields of that
\* attempt: a Cheerio outcome leaves robustStatus as it was, a Puppeteer
\* outcome leaves lightweightStatus as it was, a failure of either leaves the
\* content as it was; and a record changes only in a step that updates it.
C32_WritesTouchOwnFields ==
    [][\A a \in Articles :
        HasRow(store[a]) =>
            /\ Len(store'[a]) = Len(store[a])
            /\ store'[a] # store[a] =>
                \E r \in Runs : Did("update", a) \in Added(r)
            /\ \A r \in Runs : \A e \in Added(r) :
                e[2] = a =>
                    /\ e[1] \in CheerioOutcomes => Puppeteer(store'[a]) = Puppeteer(store[a])
                    /\ e[1] \in PuppeteerOutcomes => Cheerio(store'[a]) = Cheerio(store[a])
                    /\ e[1] \in StrategyFailures =>
                        store'[a][1].content = store[a][1].content]_vars

\* A pass ran to its end in which both strategies failed for an article
\* loaded with a text from upstream, which it still holds, and Cheerio
\* succeeded for an article loaded with robustStatus Succeeded, which it
\* still has.
C32_Witness ==
    \E r \in Runs : \E a, b \in Articles :
        /\ completed[r]
        /\ queried[r].rows[a] = <<ContentRow(UpstreamContent, NotAttempted, NotAttempted)>>
        /\ Has(r, "cheerioFail", a) /\ Has(r, "puppeteerFail", a)
        /\ store[a] = <<ContentRow(UpstreamContent, Failed, Failed)>>
        /\ queried[r].rows[b] = <<ContentRow(UpstreamContent, NotAttempted, Succeeded)>>
        /\ Has(r, "cheerioOk", b)
        /\ Cheerio(store[b]) = Succeeded /\ Puppeteer(store[b]) = Succeeded
        /\ store[b][1].content.by = "cheerio"

\* C33: whenever scrapeArticleContentWithPuppeteer has returned and
\* puppeteer.launch had answered, browser.close() has been called at least
\* once, on the success path, on the path of a text that is too short, and
\* after a fault at any later stage; when launch failed there is no browser
\* and no close() call.
C33_BrowserCloseIssued ==
    "puppeteer" \in probe.called =>
        /\ ~probe.puppeteer.thrown
        /\ probe.puppeteerEnv.fault # "launch" => probe.closeCalls >= 1
        /\ probe.puppeteerEnv.fault = "launch" => probe.closeCalls = 0

\* Puppeteer was called on a page that failed after the browser was
\* launched; it returned the failure and close() was called once.
C33_Witness ==
    /\ "puppeteer" \in probe.called
    /\ probe.puppeteerEnv.fault = "page"
    /\ ~probe.puppeteer.success /\ probe.puppeteer.error = "page"
    /\ probe.closeCalls = 1

====
